---- MODULE Spec2Model ----
(***************************************************************************)
(* FileMonitor (app/src/main/cpp/file_monitor.cpp): one watcher object,    *)
(* the external threads that call startMonitoring / stopMonitoring /       *)
(* ~FileMonitor on it, and the background threads it spawns.               *)
(*                                                                         *)
(* Every step is one access to state another thread can see (the atomics   *)
(* monitoring_ and shouldStop_, the std::thread member monitorThread_, the *)
(* JNI global reference) together with the thread-local code before it.    *)
(***************************************************************************)
EXTENDS Integers, Sequences, FiniteSets, TLC

\* ---------------------------------------------------------------- bounds
\* Number of sessions (NewGlobalRef + std::thread) created in one behaviour.
MaxSessions == 2
\* Number of change records one read() returns at most.
MaxRecords == 1
\* Number of calls the host makes in one behaviour.
MaxCalls == 3
\* Number of change records one read() returns at most while what the
\* consumer is handed is recorded.
MaxBurst == 2
\* Number of complete records in a buffer given to the decoding loop alone.
MaxDecoded == 2
\* Length of the names isApkFile is given when it is run alone.
MaxNameLen == 5

\* The external (host) threads that call into the watcher.
Callers == {"h1", "h2"}
Sessions == 1..MaxSessions
\* File names are sequences of characters.
ApkName == <<"a", ".", "a", "p", "k">>
TxtName == <<"r", "e", "a", "d", "m", "e", ".", "t", "x", "t">>
\* The names the records of a buffer carry: one isApkFile accepts and one it
\* rejects.
Names == {ApkName, TxtName}

\* ::tolower (line 251) on the characters used here.
ToLower(ch) ==
    CASE ch = "A" -> "a"
      [] ch = "P" -> "p"
      [] ch = "K" -> "k"
      [] ch = "B" -> "b"
      [] OTHER -> ch

\* Lines 245-254 without the std::transform of line 251.
isApkFile_CaseSensitive(filename) ==
    IF Len(filename) = 0 \/ Len(filename) < 4 THEN FALSE
    ELSE SubSeq(filename, Len(filename) - 3, Len(filename)) = <<".", "a", "p", "k">>

\* FileMonitor::isApkFile, lines 245-254
isApkFile(filename) ==
    IF Len(filename) = 0 \/ Len(filename) < 4 THEN FALSE
    ELSE LET lower == [i \in 1..Len(filename) |-> ToLower(filename[i])]
         IN SubSeq(lower, Len(lower) - 3, Len(lower)) = <<".", "a", "p", "k">>

VARIABLES
    monitoring,   \* std::atomic<bool> monitoring_
    shouldStop,   \* std::atomic<bool> shouldStop_
    handle,       \* monitorThread_: the session it refers to, 0 = not joinable
    destroyed,    \* the FileMonitor has been deleted
    abortCause,   \* "" while the process runs, else why std::terminate ran
    nextSid,      \* the next session id (sessions 1..nextSid-1 hold a global ref)
    pc,           \* pc[c]: where host thread c is inside its call
    op,           \* op[c]: the call host thread c is making
    arg,          \* arg[c]: what the directory argument of the call names
    sid,          \* sid[c]: startMonitoring's local globalCallback / new thread
    jh,           \* jh[c]: the thread pthread_join is blocked on
    sawActive,    \* sawActive[c]: stopMonitoring found monitoring_ true
    lastRet,      \* outcome of the call that returned last
    okSessions,   \* sessions whose startMonitoring returned true
    tpc,          \* tpc[t]: where background thread t is
    fdOpen,       \* fdOpen[t]: thread t's inotifyFd is open
    released,     \* released[t]: DeleteGlobalRef calls on session t's reference
    exitPath,     \* exitPath[t]: the return / break that ended thread t's loop
    rd,           \* rd[t]: errno of the read() that has just failed
    buf,          \* buf[t]: records of the buffer not yet decoded
    calls,        \* calls the host has made
    traced,       \* what the consumer is handed is being recorded
    src,          \* src[t]: the buffer thread t read in this iteration
    fate,         \* fate[t]: how each candidate of that buffer has fared
    got,          \* got[t]: the paths CallVoidMethod was handed for that buffer
    fname,        \* isApkFile alone: its argument
    verdict,      \* isApkFile alone: what it returned
    layout,       \* the decoding loop alone: the records and the tail in bytes
    bytes,        \* the decoding loop alone: buffer[0 .. length-1]
    cur,          \* the decoding loop alone: its cursor i
    yielded,      \* the decoding loop alone: the names it has passed on
    hiRead,       \* the decoding loop alone: the highest offset it has read
    dpc           \* the decoding loop alone: where it is

vars == <<monitoring, shouldStop, handle, destroyed, abortCause, nextSid,
          pc, op, arg, sid, jh, sawActive, lastRet, okSessions,
          tpc, fdOpen, released, exitPath, rd, buf, calls,
          traced, src, fate, got, fname, verdict, layout, bytes, cur, yielded,
          hiRead, dpc>>

hostVars == <<pc, op, arg, sid, jh, sawActive>>
threadVars == <<tpc, fdOpen, released, exitPath, rd, buf>>
\* The record of what the consumer is handed.
logVars == <<src, fate, got>>
\* The state of isApkFile and of the decoding loop run on their own.
apkVars == <<fname, verdict>>
decodeVars == <<layout, bytes, cur, yielded, hiRead, dpc>>
pureVars == <<apkVars, decodeVars>>

\* FileMonitor::isMonitoring
isMonitoring == monitoring

\* std::thread::joinable on monitorThread_
joinable == handle # 0

aborted == abortCause # ""

\* Background threads that have been spawned and have not returned.
Live == {t \in Sessions : tpc[t] \notin {"unborn", "done"}}

\* Sessions whose global reference exists and has not been deleted.
RefsHeld == {t \in Sessions : t < nextSid /\ released[t] = 0}

\* Nothing has been handed to the consumer.
NoLog == [t \in Sessions |-> <<>>]

\* isApkFile is not being run on its own.
ApkIdle ==
    /\ fname = <<>>
    /\ verdict = "none"

\* The decoding loop is not being run on its own.
DecodeIdle ==
    /\ layout = [recs |-> <<>>, tail |-> <<>>]
    /\ bytes = <<>>
    /\ cur = 0
    /\ yielded = <<>>
    /\ hiRead = -1
    /\ dpc = "idle"

PureIdle == ApkIdle /\ DecodeIdle

\* FileMonitor::FileMonitor
Created ==
    /\ monitoring = FALSE
    /\ shouldStop = FALSE
    /\ handle = 0
    /\ destroyed = FALSE
    /\ abortCause = ""
    /\ nextSid = 1
    /\ pc = [c \in Callers |-> "idle"]
    /\ op = [c \in Callers |-> "none"]
    /\ arg = [c \in Callers |-> "none"]
    /\ sid = [c \in Callers |-> 0]
    /\ jh = [c \in Callers |-> 0]
    /\ sawActive = [c \in Callers |-> FALSE]
    /\ lastRet = "none"
    /\ okSessions = {}
    /\ tpc = [t \in Sessions |-> "unborn"]
    /\ fdOpen = [t \in Sessions |-> FALSE]
    /\ released = [t \in Sessions |-> 0]
    /\ exitPath = [t \in Sessions |-> "none"]
    /\ rd = [t \in Sessions |-> "none"]
    /\ buf = [t \in Sessions |-> <<>>]
    /\ calls = 0
    /\ src = NoLog /\ fate = NoLog /\ got = NoLog

Init == Created /\ traced = FALSE /\ PureIdle

\* std::terminate: the process is gone, and with it the object, its threads
\* and every descriptor and reference. What the host last saw remains.
Crash(cause) ==
    /\ abortCause' = cause
    /\ monitoring' = FALSE
    /\ shouldStop' = FALSE
    /\ handle' = 0
    /\ destroyed' = FALSE
    /\ nextSid' = 1
    /\ pc' = [c \in Callers |-> "dead"]
    /\ op' = [c \in Callers |-> "none"]
    /\ arg' = [c \in Callers |-> "none"]
    /\ sid' = [c \in Callers |-> 0]
    /\ jh' = [c \in Callers |-> 0]
    /\ sawActive' = [c \in Callers |-> FALSE]
    /\ okSessions' = {}
    /\ tpc' = [t \in Sessions |-> "unborn"]
    /\ fdOpen' = [t \in Sessions |-> FALSE]
    /\ released' = [t \in Sessions |-> 0]
    /\ exitPath' = [t \in Sessions |-> "none"]
    /\ rd' = [t \in Sessions |-> "none"]
    /\ buf' = [t \in Sessions |-> <<>>]
    /\ calls' = 0
    /\ UNCHANGED lastRet

\* ------------------------------------------------------------ host calls
\* A call returns to the host: locals die, the outcome is recorded.
Ret(c, r) ==
    /\ pc' = [pc EXCEPT ![c] = "idle"]
    /\ op' = [op EXCEPT ![c] = "none"]
    /\ arg' = [arg EXCEPT ![c] = "none"]
    /\ sid' = [sid EXCEPT ![c] = 0]
    /\ jh' = [jh EXCEPT ![c] = 0]
    /\ sawActive' = [sawActive EXCEPT ![c] = FALSE]
    /\ lastRet' = r

Goto(c, l) == pc' = [pc EXCEPT ![c] = l]

\* Starts that have not yet taken their session id.
StartsPending == {c \in Callers : pc[c] \in {"s_check", "s_validate"}}

\* What the directory argument of startMonitoring can name.
Paths == {"dir", "missing"}

\* The host calls nativeStartMonitoring (with a directory), nativeStopMonitoring
\* or nativeDestroyFileMonitor on the handle. delete is the last call on the
\* object and is made while no other call is in progress. Host threads are
\* interchangeable: "h2" stands for whichever thread calls in while "h1" is
\* inside a call.
Call(c, o, p) ==
    /\ ~aborted
    /\ pc[c] = "idle"
    /\ c = "h2" => pc["h1"] # "idle"
    /\ calls < MaxCalls
    /\ calls' = calls + 1
    /\ ~destroyed
    /\ \A d \in Callers : op[d] # "destroy"
    /\ o = "destroy" => \A d \in Callers : pc[d] = "idle"
    /\ o = "start" => nextSid + Cardinality(StartsPending) <= MaxSessions
    /\ (o = "start") = (p \in Paths)
    /\ op' = [op EXCEPT ![c] = o]
    /\ arg' = [arg EXCEPT ![c] = p]
    /\ Goto(c, IF o = "start" THEN "s_check" ELSE "t_check")
    /\ UNCHANGED <<monitoring, shouldStop, handle, destroyed, abortCause,
                   nextSid, sid, jh, sawActive, lastRet, okSessions>>
    /\ UNCHANGED threadVars
    /\ UNCHANGED <<traced, logVars, pureVars>>

\* The same, by a host that serialises its calls (spec section 5).
CallSerial(c, o, p) ==
    /\ \A d \in Callers : pc[d] = "idle"
    /\ Call(c, o, p)

\* The same, by a host that serialises its calls except that it may call
\* stopMonitoring while another stopMonitoring runs.
CallOverStop(c, o, p) ==
    /\ \A d \in Callers : op[d] \in {"none", "stop"}
    /\ o # "stop" => \A d \in Callers : pc[d] = "idle"
    /\ Call(c, o, p)

\* startMonitoring without the test of monitoring_ at line 21.
S_Check_NoGuard(c) ==
    /\ ~aborted
    /\ pc[c] = "s_check"
    /\ Goto(c, "s_validate")
    /\ UNCHANGED <<op, arg, sid, jh, sawActive, lastRet>>
    /\ UNCHANGED <<monitoring, shouldStop, handle, destroyed, abortCause,
                   nextSid, okSessions>>
    /\ UNCHANGED <<threadVars, calls>>
    /\ UNCHANGED <<traced, logVars, pureVars>>

\* startMonitoring, lines 21-24: if (monitoring_) return false
S_Check(c) ==
    /\ ~aborted
    /\ pc[c] = "s_check"
    /\ IF monitoring
         THEN Ret(c, "AlreadyActive")
         ELSE Goto(c, "s_validate") /\ UNCHANGED <<op, arg, sid, jh, sawActive, lastRet>>
    /\ UNCHANGED <<monitoring, shouldStop, handle, destroyed, abortCause,
                   nextSid, okSessions>>
    /\ UNCHANGED <<threadVars, calls>>
    /\ UNCHANGED <<traced, logVars, pureVars>>

\* Lines 26-47 without the stat of the directory at line 28.
ValidateNoStat(c, jvmOk, refOk) ==
    IF ~jvmOk THEN
        Ret(c, "JvmFailed") /\ UNCHANGED <<nextSid, shouldStop>>
    ELSE IF ~refOk THEN
        Ret(c, "RefFailed") /\ UNCHANGED <<nextSid, shouldStop>>
    ELSE
        /\ sid' = [sid EXCEPT ![c] = nextSid]
        /\ nextSid' = nextSid + 1
        /\ shouldStop' = FALSE
        /\ Goto(c, "s_mon")
        /\ UNCHANGED <<op, arg, jh, sawActive, lastRet>>

\* startMonitoring, lines 26-47, for one outcome of GetJavaVM and
\* NewGlobalRef: stat finds a directory or return false; GetJavaVM succeeds or
\* return false; NewGlobalRef succeeds or return false; shouldStop_ = false
Validate(c, jvmOk, refOk) ==
    IF arg[c] # "dir" THEN
        Ret(c, "DirectoryNotFound") /\ UNCHANGED <<nextSid, shouldStop>>
    ELSE IF ~jvmOk THEN
        Ret(c, "JvmFailed") /\ UNCHANGED <<nextSid, shouldStop>>
    ELSE IF ~refOk THEN
        Ret(c, "RefFailed") /\ UNCHANGED <<nextSid, shouldStop>>
    ELSE
        /\ sid' = [sid EXCEPT ![c] = nextSid]
        /\ nextSid' = nextSid + 1
        /\ shouldStop' = FALSE
        /\ Goto(c, "s_mon")
        /\ UNCHANGED <<op, arg, jh, sawActive, lastRet>>

\* startMonitoring, lines 26-47
S_Validate(c) ==
    /\ ~aborted
    /\ pc[c] = "s_validate"
    /\ \E jvmOk \in BOOLEAN, refOk \in BOOLEAN : Validate(c, jvmOk, refOk)
    /\ UNCHANGED <<monitoring, handle, destroyed, abortCause, okSessions>>
    /\ UNCHANGED <<threadVars, calls>>
    /\ UNCHANGED <<traced, logVars, pureVars>>

\* startMonitoring, line 48: monitoring_ = true
S_Mon(c) ==
    /\ ~aborted
    /\ pc[c] = "s_mon"
    /\ monitoring' = TRUE
    /\ Goto(c, "s_spawn")
    /\ UNCHANGED <<op, arg, sid, jh, sawActive, lastRet>>
    /\ UNCHANGED <<shouldStop, handle, destroyed, abortCause, nextSid, okSessions>>
    /\ UNCHANGED <<threadVars, calls>>
    /\ UNCHANGED <<traced, logVars, pureVars>>

\* startMonitoring, line 52: the std::thread temporary is constructed, the
\* new thread runs monitorThread
S_Spawn(c) ==
    /\ ~aborted
    /\ pc[c] = "s_spawn"
    /\ tpc' = [tpc EXCEPT ![sid[c]] = "attach"]
    /\ Goto(c, "s_assign")
    /\ UNCHANGED <<op, arg, sid, jh, sawActive, lastRet>>
    /\ UNCHANGED <<monitoring, shouldStop, handle, destroyed, abortCause,
                   nextSid, okSessions>>
    /\ UNCHANGED <<fdOpen, released, exitPath, rd, buf, calls>>
    /\ UNCHANGED <<traced, logVars, pureVars>>

\* startMonitoring, line 52: std::thread::operator=(thread&&) calls
\* std::terminate when the target is joinable
S_Assign(c) ==
    /\ ~aborted
    /\ pc[c] = "s_assign"
    /\ IF joinable
         THEN Crash("assign")
         ELSE /\ Goto(c, "s_write")
              /\ UNCHANGED <<op, arg, sid, jh, sawActive, lastRet>>
              /\ UNCHANGED <<monitoring, shouldStop, handle, destroyed, abortCause,
                             nextSid, okSessions, calls>>
              /\ UNCHANGED threadVars
    /\ UNCHANGED <<traced, logVars, pureVars>>

\* startMonitoring, lines 52-57: operator= takes the new thread; return true
S_Write(c) ==
    /\ ~aborted
    /\ pc[c] = "s_write"
    /\ handle' = sid[c]
    /\ okSessions' = okSessions \cup {sid[c]}
    /\ Ret(c, "ok")
    /\ UNCHANGED <<monitoring, shouldStop, destroyed, abortCause, nextSid>>
    /\ UNCHANGED <<threadVars, calls>>
    /\ UNCHANGED <<traced, logVars, pureVars>>

\* stopMonitoring returns: to the host, or into ~FileMonitor's member teardown.
StopRet(c) ==
    IF op[c] = "destroy"
      THEN Goto(c, "d_dtor") /\ UNCHANGED <<op, arg, sid, jh, sawActive, lastRet>>
      ELSE Ret(c, "stopped")

\* stopMonitoring without the test of monitoring_ at line 61.
T_Check_NoGuard(c) ==
    /\ ~aborted
    /\ pc[c] = "t_check"
    /\ sawActive' = [sawActive EXCEPT ![c] = TRUE]
    /\ Goto(c, "t_stop")
    /\ UNCHANGED <<op, arg, sid, jh, lastRet>>
    /\ UNCHANGED <<monitoring, shouldStop, handle, destroyed, abortCause,
                   nextSid, okSessions>>
    /\ UNCHANGED <<threadVars, calls>>
    /\ UNCHANGED <<traced, logVars, pureVars>>

\* stopMonitoring, lines 61-63: if (!monitoring_) return
T_Check(c) ==
    /\ ~aborted
    /\ pc[c] = "t_check"
    /\ IF ~monitoring
         THEN StopRet(c)
         ELSE /\ sawActive' = [sawActive EXCEPT ![c] = TRUE]
              /\ Goto(c, "t_stop")
              /\ UNCHANGED <<op, arg, sid, jh, lastRet>>
    /\ UNCHANGED <<monitoring, shouldStop, handle, destroyed, abortCause,
                   nextSid, okSessions>>
    /\ UNCHANGED <<threadVars, calls>>
    /\ UNCHANGED <<traced, logVars, pureVars>>

\* stopMonitoring, line 65: shouldStop_ = true
T_Stop(c) ==
    /\ ~aborted
    /\ pc[c] = "t_stop"
    /\ shouldStop' = TRUE
    /\ Goto(c, "t_mon")
    /\ UNCHANGED <<op, arg, sid, jh, sawActive, lastRet>>
    /\ UNCHANGED <<monitoring, handle, destroyed, abortCause, nextSid, okSessions>>
    /\ UNCHANGED <<threadVars, calls>>
    /\ UNCHANGED <<traced, logVars, pureVars>>

\* stopMonitoring, line 66: monitoring_ = false
T_Mon(c) ==
    /\ ~aborted
    /\ pc[c] = "t_mon"
    /\ monitoring' = FALSE
    /\ Goto(c, "t_joinable")
    /\ UNCHANGED <<op, arg, sid, jh, sawActive, lastRet>>
    /\ UNCHANGED <<shouldStop, handle, destroyed, abortCause, nextSid, okSessions>>
    /\ UNCHANGED <<threadVars, calls>>
    /\ UNCHANGED <<traced, logVars, pureVars>>

\* stopMonitoring, lines 68-69: if (monitorThread_.joinable()) join() begins
T_Joinable(c) ==
    /\ ~aborted
    /\ pc[c] = "t_joinable"
    /\ IF joinable
         THEN /\ jh' = [jh EXCEPT ![c] = handle]
              /\ Goto(c, "t_join")
              /\ UNCHANGED <<op, arg, sid, sawActive, lastRet>>
         ELSE StopRet(c)
    /\ UNCHANGED <<monitoring, shouldStop, handle, destroyed, abortCause,
                   nextSid, okSessions>>
    /\ UNCHANGED <<threadVars, calls>>
    /\ UNCHANGED <<traced, logVars, pureVars>>

\* stopMonitoring, lines 69-73: join() returns once the thread has exited and
\* leaves monitorThread_ not joinable
T_Join(c) ==
    /\ ~aborted
    /\ pc[c] = "t_join"
    /\ handle = jh[c]
    /\ tpc[jh[c]] = "done"
    /\ handle' = 0
    /\ StopRet(c)
    /\ UNCHANGED <<monitoring, shouldStop, destroyed, abortCause, nextSid, okSessions>>
    /\ UNCHANGED <<threadVars, calls>>
    /\ UNCHANGED <<traced, logVars, pureVars>>

\* stopMonitoring, line 69, when another call has joined or reassigned
\* monitorThread_ since joinable() was read: a data race on the std::thread.
\* join() throws out of a JNI entry point (std::terminate), or returns once
\* the thread it waited for is gone.
T_JoinRace(c) ==
    /\ ~aborted
    /\ pc[c] = "t_join"
    /\ handle # jh[c]
    /\ \/ Crash("join")
       \/ /\ tpc[jh[c]] = "done"
          /\ StopRet(c)
          /\ UNCHANGED <<monitoring, shouldStop, handle, destroyed, abortCause,
                         nextSid, okSessions, calls>>
          /\ UNCHANGED threadVars
    /\ UNCHANGED <<traced, logVars, pureVars>>

\* ~FileMonitor, lines 16-18, after stopMonitoring(): ~std::thread calls
\* std::terminate when monitorThread_ is still joinable
D_Dtor(c) ==
    /\ ~aborted
    /\ pc[c] = "d_dtor"
    /\ IF joinable
         THEN Crash("dtor")
         ELSE /\ destroyed' = TRUE
              /\ Goto(c, "gone")
              /\ UNCHANGED <<op, arg, sid, jh, sawActive, lastRet>>
              /\ UNCHANGED <<monitoring, shouldStop, handle, abortCause, nextSid,
                             okSessions, calls>>
              /\ UNCHANGED threadVars
    /\ UNCHANGED <<traced, logVars, pureVars>>

\* ------------------------------------------------- the background thread
hostShared == <<handle, destroyed, abortCause, nextSid, lastRet, okSessions, calls>>

At(t, l) == tpc' = [tpc EXCEPT ![t] = l]

\* The buffers one read() can return: up to MaxRecords records.
RECURSIVE SeqsUpTo(_)
SeqsUpTo(n) ==
    IF n = 0 THEN {<<>>}
    ELSE LET shorter == SeqsUpTo(n - 1)
         IN shorter \cup {Append(s, k) : s \in {x \in shorter : Len(x) = n - 1},
                                         k \in Names}

Buffers == SeqsUpTo(MaxRecords)

\* The names of the records of a burst: Names, a record without a name
\* (len = 0) and an upper-case name isApkFile accepts.
NoName == <<>>
UpperName == <<"B", ".", "A", "P", "K">>
BurstNames == Names \cup {NoName, UpperName}

\* The buffers one read() can return while the consumer is recorded: up to
\* MaxBurst records.
RECURSIVE BurstsUpTo(_)
BurstsUpTo(n) ==
    IF n = 0 THEN {<<>>}
    ELSE LET shorter == BurstsUpTo(n - 1)
         IN shorter \cup {Append(s, k) : s \in {x \in shorter : Len(x) = n - 1},
                                         k \in BurstNames}

Bursts == BurstsUpTo(MaxBurst)

\* What read() can return.
Inputs == IF traced THEN Bursts ELSE Buffers

\* Thread t's record gets value v for variable f, if a record is kept.
Log(f, t, v) == IF traced THEN [f EXCEPT ![t] = v] ELSE f

\* fullPath, line 183
FullPath(filename) == <<"dir", "/">> \o filename

\* The decoding loop's cursor, counted in records of the buffer read.
Cursor(t) == Len(src[t]) - Len(buf[t]) + 1

\* What CallVoidMethod is handed for the record at the cursor (line 207), and
\* which record that is.
Handed(t) == [at |-> Cursor(t), path |-> FullPath(Head(buf[t]))]

\* How handing a candidate to the consumer can end (lines 195-224):
\* GetObjectClass, GetMethodID or NewStringUTF returns null, the callback
\* throws, or the callback returns.
Outcomes == {"noclass", "nomethod", "nostring", "threw", "ok"}
\* The outcomes in which CallVoidMethod ran (line 207).
Called == {"threw", "ok"}

\* monitorThread, lines 89-97: AttachCurrentThread; on failure return, with
\* the global reference still held and monitoring_ still true. (The null
\* checks of lines 79-87 cannot fail: startMonitoring passes a JavaVM and a
\* global reference it has checked.)
M_Attach(t) ==
    /\ ~aborted
    /\ tpc[t] = "attach"
    /\ \E ok \in BOOLEAN :
          IF ok THEN At(t, "init") /\ UNCHANGED exitPath
          ELSE At(t, "done") /\ exitPath' = [exitPath EXCEPT ![t] = "attach"]
    /\ UNCHANGED <<monitoring, shouldStop, fdOpen, released, rd, buf>>
    /\ UNCHANGED hostShared
    /\ UNCHANGED hostVars
    /\ UNCHANGED <<traced, logVars, pureVars>>

\* monitorThread, lines 102-105: inotify_init1; on failure monitoring_ = false
M_Init(t) ==
    /\ ~aborted
    /\ tpc[t] = "init"
    /\ \E ok \in BOOLEAN :
          IF ok THEN /\ fdOpen' = [fdOpen EXCEPT ![t] = TRUE]
                     /\ At(t, "addwatch")
                     /\ UNCHANGED <<monitoring, exitPath>>
          ELSE /\ monitoring' = FALSE
               /\ exitPath' = [exitPath EXCEPT ![t] = "init"]
               /\ At(t, "rel")
               /\ UNCHANGED fdOpen
    /\ UNCHANGED <<shouldStop, released, rd, buf>>
    /\ UNCHANGED hostShared
    /\ UNCHANGED hostVars
    /\ UNCHANGED <<traced, logVars, pureVars>>

\* monitorThread, lines 112-117: inotify_add_watch; on failure close the
\* descriptor and monitoring_ = false
M_AddWatch(t) ==
    /\ ~aborted
    /\ tpc[t] = "addwatch"
    /\ \E ok \in BOOLEAN :
          IF ok THEN At(t, "loop") /\ UNCHANGED <<monitoring, exitPath, fdOpen>>
          ELSE /\ fdOpen' = [fdOpen EXCEPT ![t] = FALSE]
               /\ monitoring' = FALSE
               /\ exitPath' = [exitPath EXCEPT ![t] = "watch"]
               /\ At(t, "rel")
    /\ UNCHANGED <<shouldStop, released, rd, buf>>
    /\ UNCHANGED hostShared
    /\ UNCHANGED hostVars
    /\ UNCHANGED <<traced, logVars, pureVars>>

\* Line 127 without the test of shouldStop_.
M_LoopStop_Deaf(t) ==
    /\ ~aborted
    /\ tpc[t] = "loop"
    /\ At(t, "loop2") /\ UNCHANGED exitPath
    /\ src' = Log(src, t, <<>>)
    /\ fate' = Log(fate, t, <<>>)
    /\ got' = Log(got, t, <<>>)
    /\ UNCHANGED <<monitoring, shouldStop, fdOpen, released, rd, buf>>
    /\ UNCHANGED hostShared
    /\ UNCHANGED hostVars
    /\ UNCHANGED <<traced, pureVars>>

\* monitorThread, line 127: while (!shouldStop_ ...
M_LoopStop(t) ==
    /\ ~aborted
    /\ tpc[t] = "loop"
    /\ IF shouldStop
         THEN At(t, "cleanup") /\ exitPath' = [exitPath EXCEPT ![t] = "cancel"]
         ELSE At(t, "loop2") /\ UNCHANGED exitPath
    /\ src' = Log(src, t, <<>>)
    /\ fate' = Log(fate, t, <<>>)
    /\ got' = Log(got, t, <<>>)
    /\ UNCHANGED <<monitoring, shouldStop, fdOpen, released, rd, buf>>
    /\ UNCHANGED hostShared
    /\ UNCHANGED hostVars
    /\ UNCHANGED <<traced, pureVars>>

\* monitorThread, line 127: ... && monitoring_)
M_LoopMon(t) ==
    /\ ~aborted
    /\ tpc[t] = "loop2"
    /\ IF monitoring
         THEN At(t, "select") /\ UNCHANGED exitPath
         ELSE At(t, "cleanup") /\ exitPath' = [exitPath EXCEPT ![t] = "cancel"]
    /\ UNCHANGED <<monitoring, shouldStop, fdOpen, released, rd, buf>>
    /\ UNCHANGED hostShared
    /\ UNCHANGED hostVars
    /\ UNCHANGED <<traced, logVars, pureVars>>

\* The decoding loop without the isApkFile test of line 182: run from the
\* cursor to the next record that has a name.
RECURSIVE SkipToNamed(_)
SkipToNamed(b) ==
    IF b = <<>> THEN <<>>
    ELSE IF Len(Head(b)) > 0 THEN b
    ELSE SkipToNamed(Tail(b))

\* The decoding loop of lines 162-182 and 228, run from the cursor to the
\* next record that has a name (line 178) isApkFile accepts (line 182): the records before it are passed
\* over (i += eventSize), and what is left starts with that record.
RECURSIVE SkipToCandidate(_)
SkipToCandidate(b) ==
    IF b = <<>> THEN <<>>
    ELSE IF Len(Head(b)) > 0 /\ isApkFile(Head(b)) THEN b
    ELSE SkipToCandidate(Tail(b))

\* The decoding loop passing over every later record that has the name of the
\* record it has just handled.
DecodeOnce(t, b) ==
    LET rest == IF buf[t] = <<>> THEN b
                ELSE SelectSeq(b, LAMBDA n : n # Head(buf[t]))
    IN /\ buf' = [buf EXCEPT ![t] = SkipToCandidate(rest)]
       /\ At(t, IF SkipToCandidate(rest) = <<>> THEN "loop" ELSE "settle")

\* The decoding loop goes on with buffer b: into the settle delay of its next
\* candidate, or, at the end of the buffer, back to the loop condition.
Decode(t, b) ==
    /\ buf' = [buf EXCEPT ![t] = SkipToCandidate(b)]
    /\ At(t, IF SkipToCandidate(b) = <<>> THEN "loop" ELSE "settle")

\* monitorThread, lines 136-152 and 161-186: select with a one second
\* timeout; when the descriptor is readable, read(inotifyFd, buffer,
\* sizeof(buffer)), and a buffer that was read is decoded
M_Select(t) ==
    /\ ~aborted
    /\ tpc[t] = "select"
    /\ \/ /\ At(t, "cleanup")
          /\ exitPath' = [exitPath EXCEPT ![t] = "select"]
          /\ UNCHANGED <<rd, buf, src>>
       \/ /\ \E r \in {"EINTR", "timeout"} : At(t, "loop")
          /\ UNCHANGED <<exitPath, rd, buf, src>>
       \/ /\ \E e \in {"EAGAIN", "EIO"} : rd' = [rd EXCEPT ![t] = e]
          /\ At(t, "read_err")
          /\ UNCHANGED <<exitPath, buf, src>>
       \/ /\ \E b \in Inputs : Decode(t, b) /\ src' = Log(src, t, b)
          /\ UNCHANGED <<exitPath, rd>>
    /\ UNCHANGED <<fate, got>>
    /\ UNCHANGED <<monitoring, shouldStop, fdOpen, released>>
    /\ UNCHANGED hostShared
    /\ UNCHANGED hostVars
    /\ UNCHANGED <<traced, pureVars>>

\* Where the loop goes after a failed read, by errno (lines 154-159).
AfterReadError(e) == "loop"

\* monitorThread, lines 154-159: a failed read is logged unless it would
\* block, and the loop continues either way
M_ReadErr(t) ==
    /\ ~aborted
    /\ tpc[t] = "read_err"
    /\ At(t, AfterReadError(rd[t]))
    /\ rd' = [rd EXCEPT ![t] = "none"]
    /\ UNCHANGED <<monitoring, shouldStop, fdOpen, released, exitPath, buf>>
    /\ UNCHANGED hostShared
    /\ UNCHANGED hostVars
    /\ UNCHANGED <<traced, logVars, pureVars>>

\* monitorThread, lines 186-191: usleep(500000), then stat the path; a path
\* that is no regular file is passed over
M_Settle(t) ==
    /\ ~aborted
    /\ tpc[t] = "settle"
    /\ \E regular \in BOOLEAN :
          IF regular THEN At(t, "deliver") /\ UNCHANGED <<buf, fate>>
          ELSE /\ Decode(t, Tail(buf[t]))
               /\ fate' = Log(fate, t, Append(fate[t], "nostat"))
    /\ UNCHANGED <<src, got>>
    /\ UNCHANGED <<monitoring, shouldStop, fdOpen, released, exitPath, rd>>
    /\ UNCHANGED hostShared
    /\ UNCHANGED hostVars
    /\ UNCHANGED <<traced, pureVars>>

\* Lines 195-228 with every failure to hand the candidate over ending the
\* loop, as a failed select does.
M_Deliver_Fatal(t) ==
    /\ ~aborted
    /\ tpc[t] = "deliver"
    /\ \E o \in Outcomes :
          /\ fate' = Log(fate, t, Append(fate[t], o))
          /\ got' = IF o \in Called
                      THEN Log(got, t, Append(got[t], Handed(t)))
                      ELSE got
          /\ IF o = "ok" THEN Decode(t, Tail(buf[t]))
             ELSE At(t, "cleanup") /\ UNCHANGED buf
    /\ UNCHANGED src
    /\ UNCHANGED <<monitoring, shouldStop, fdOpen, released, exitPath, rd>>
    /\ UNCHANGED hostShared
    /\ UNCHANGED hostVars
    /\ UNCHANGED <<traced, pureVars>>

\* monitorThread, lines 195-228: the callback is looked up and called with
\* the full path, and the decoding loop goes on however that ends
M_Deliver(t) ==
    /\ ~aborted
    /\ tpc[t] = "deliver"
    /\ \E o \in Outcomes :
          /\ fate' = Log(fate, t, Append(fate[t], o))
          /\ got' = IF o \in Called
                      THEN Log(got, t, Append(got[t], Handed(t)))
                      ELSE got
    /\ Decode(t, Tail(buf[t]))
    /\ UNCHANGED src
    /\ UNCHANGED <<monitoring, shouldStop, fdOpen, released, exitPath, rd>>
    /\ UNCHANGED hostShared
    /\ UNCHANGED hostVars
    /\ UNCHANGED <<traced, pureVars>>

\* monitorThread, lines 234-236: inotify_rm_watch, close, monitoring_ = false
M_Cleanup(t) ==
    /\ ~aborted
    /\ tpc[t] = "cleanup"
    /\ fdOpen' = [fdOpen EXCEPT ![t] = FALSE]
    /\ monitoring' = FALSE
    /\ At(t, "rel")
    /\ UNCHANGED <<shouldStop, released, exitPath, rd, buf>>
    /\ UNCHANGED hostShared
    /\ UNCHANGED hostVars
    /\ UNCHANGED <<traced, logVars, pureVars>>

\* monitorThread, lines 106-108, 118-120 and 239-243: DeleteGlobalRef,
\* DetachCurrentThread, return
M_Release(t) ==
    /\ ~aborted
    /\ tpc[t] = "rel"
    /\ released' = [released EXCEPT ![t] = released[t] + 1]
    /\ At(t, "done")
    /\ UNCHANGED <<monitoring, shouldStop, fdOpen, exitPath, rd, buf>>
    /\ UNCHANGED hostShared
    /\ UNCHANGED hostVars
    /\ UNCHANGED <<traced, logVars, pureVars>>

\* A background thread that outlives the FileMonitor reads and writes its
\* freed members: the process may crash at any such access.
UseAfterFree ==
    /\ ~aborted
    /\ destroyed
    /\ Live # {}
    /\ Crash("uaf")
    /\ UNCHANGED <<traced, logVars, pureVars>>

\* ------------------------------------------- the decoding loop on its own
\* The watcher's own state, which the decoding loop run alone does not touch.
monitorVars == <<monitoring, shouldStop, handle, destroyed, abortCause, nextSid,
                 hostVars, lastRet, okSessions, threadVars, calls, traced, logVars>>

\* sizeof(struct inotify_event): wd, mask, cookie and len, four bytes each.
HeaderSize == 16
\* offsetof(struct inotify_event, len)
LenOffset == 12

\* Names as bytes: "", "a" and "ab".
DecNames == {<<>>, <<97>>, <<97, 98>>}

\* The bytes of a header that declares n bytes of name (n < 256).
Header(n) == [k \in 1..HeaderSize |-> IF k = LenOffset + 1 THEN n ELSE 0]

\* The bytes of one complete record as the kernel writes it: the header and,
\* for a record with a name, the name and its terminating NUL.
RecordBytes(n) ==
    IF n = <<>> THEN Header(0) ELSE Header(Len(n) + 1) \o n \o <<0>>

\* What is left of a record that was cut short: nothing, part of its header,
\* or its header and part of its name.
Tails ==
    UNION {{SubSeq(RecordBytes(n), 1, k) : k \in 0..(Len(RecordBytes(n)) - 1)} :
              n \in DecNames}

\* Up to MaxDecoded complete records.
RECURSIVE RecsUpTo(_)
RecsUpTo(n) ==
    IF n = 0 THEN {<<>>}
    ELSE LET shorter == RecsUpTo(n - 1)
         IN shorter \cup {Append(s, k) : s \in {x \in shorter : Len(x) = n - 1},
                                         k \in DecNames}

RECURSIVE Concat(_)
Concat(recs) ==
    IF recs = <<>> THEN <<>> ELSE RecordBytes(Head(recs)) \o Concat(Tail(recs))

\* event->len of the record at offset i: four bytes, little-endian
LenAt(i) ==
    bytes[i + LenOffset + 1] + 256 * bytes[i + LenOffset + 2]
        + 65536 * bytes[i + LenOffset + 3] + 16777216 * bytes[i + LenOffset + 4]

\* strlen(event->name) for the record at offset i: the bytes before the first
\* NUL, or all the bytes there are if there is none.
StrLen(i) ==
    LET from == i + HeaderSize
        nuls == {k \in 0..(Len(bytes) - from - 1) : bytes[from + k + 1] = 0}
    IN IF nuls = {} THEN Len(bytes) - from
       ELSE CHOOSE k \in nuls : \A j \in nuls : k <= j

Max(a, b) == IF a >= b THEN a ELSE b

\* The decoding loop without the test of line 173.
DecodeStep_NoSizeCheck ==
    /\ dpc = "loop"
    /\ IF ~(cur < Len(bytes)) \/ cur + HeaderSize > Len(bytes)
         THEN dpc' = "end" /\ UNCHANGED <<cur, yielded, hiRead>>
         ELSE LET eventSize == HeaderSize + LenAt(cur)
              IN /\ cur' = cur + eventSize
                 /\ IF LenAt(cur) > 0
                      THEN /\ yielded' = Append(yielded,
                                   [at |-> cur,
                                    name |-> SubSeq(bytes, cur + HeaderSize + 1,
                                                    cur + HeaderSize + StrLen(cur))])
                           /\ hiRead' = Max(hiRead, cur + HeaderSize + StrLen(cur))
                      ELSE /\ hiRead' = Max(hiRead, cur + HeaderSize - 1)
                           /\ UNCHANGED yielded
                 /\ UNCHANGED dpc
    /\ UNCHANGED <<layout, bytes>>
    /\ UNCHANGED <<monitorVars, apkVars>>

\* monitorThread, lines 162-180 and 228: one turn of while (i < length). The
\* header is read once i + sizeof(struct inotify_event) <= length, the name
\* once i + eventSize <= length; a record with a name is passed on.
DecodeStep ==
    /\ dpc = "loop"
    /\ IF ~(cur < Len(bytes)) \/ cur + HeaderSize > Len(bytes)
         THEN dpc' = "end" /\ UNCHANGED <<cur, yielded, hiRead>>
         ELSE LET eventSize == HeaderSize + LenAt(cur)
              IN IF cur + eventSize > Len(bytes)
                   THEN /\ dpc' = "end"
                        /\ hiRead' = Max(hiRead, cur + HeaderSize - 1)
                        /\ UNCHANGED <<cur, yielded>>
                   ELSE /\ cur' = cur + eventSize
                        /\ IF LenAt(cur) > 0
                             THEN /\ yielded' = Append(yielded,
                                        [at |-> cur,
                                         name |-> SubSeq(bytes, cur + HeaderSize + 1,
                                                         cur + HeaderSize + StrLen(cur))])
                                  /\ hiRead' = Max(hiRead, cur + HeaderSize + StrLen(cur))
                             ELSE /\ hiRead' = Max(hiRead, cur + HeaderSize - 1)
                                  /\ UNCHANGED yielded
                        /\ UNCHANGED dpc
    /\ UNCHANGED <<layout, bytes>>
    /\ UNCHANGED <<monitorVars, apkVars>>

\* read() has returned some complete records and what is left of one more;
\* line 162: int i = 0.
InitDecode ==
    /\ Created /\ traced = FALSE /\ ApkIdle
    /\ layout \in [recs : RecsUpTo(MaxDecoded), tail : Tails]
    /\ bytes = Concat(layout.recs) \o layout.tail
    /\ cur = 0
    /\ yielded = <<>>
    /\ hiRead = -1
    /\ dpc = "loop"

SpecDecode == InitDecode /\ [][DecodeStep]_vars

\* ------------------------------------------------- isApkFile on its own
\* The characters of the names isApkFile is given.
Alphabet == {".", "a", "p", "k", "A", "P", "K", "x"}

\* "App.APK" and "app.apkx"
MixedCaseName == <<"A", "p", "p", ".", "A", "P", "K">>
LongerName == <<"a", "p", "p", ".", "a", "p", "k", "x">>

\* The argument is any name of up to MaxNameLen characters over the
\* alphabet, put together one character at a time ...
ApkNameGrows ==
    /\ verdict = "none"
    /\ Len(fname) < MaxNameLen
    /\ \E ch \in Alphabet : fname' = Append(fname, ch)
    /\ UNCHANGED verdict
    /\ UNCHANGED <<monitorVars, decodeVars>>

\* ... or one of the two longer names.
ApkNameGiven ==
    /\ verdict = "none"
    /\ fname = <<>>
    /\ fname' \in {MixedCaseName, LongerName}
    /\ UNCHANGED verdict
    /\ UNCHANGED <<monitorVars, decodeVars>>

\* isApkFile(fname) is called and returns.
ApkCall ==
    /\ verdict = "none"
    /\ verdict' = IF isApkFile(fname) THEN "true" ELSE "false"
    /\ UNCHANGED fname
    /\ UNCHANGED <<monitorVars, decodeVars>>

NextApk == ApkNameGrows \/ ApkNameGiven \/ ApkCall

SpecApk == Init /\ [][NextApk]_vars

\* ------------------------------------------------------- specifications
HostStep(c) ==
    \/ S_Check(c) \/ S_Validate(c) \/ S_Mon(c) \/ S_Spawn(c) \/ S_Assign(c)
    \/ S_Write(c)
    \/ T_Check(c) \/ T_Stop(c) \/ T_Mon(c) \/ T_Joinable(c) \/ T_Join(c)
    \/ D_Dtor(c)

ThreadStep(t) ==
    \/ M_Attach(t) \/ M_Init(t) \/ M_AddWatch(t) \/ M_LoopStop(t) \/ M_LoopMon(t)
    \/ M_Select(t) \/ M_ReadErr(t) \/ M_Settle(t)
    \/ M_Deliver(t) \/ M_Cleanup(t) \/ M_Release(t)

Ops == {"start", "stop", "destroy"}

\* Host threads call in at any time.
Next ==
    \/ \E c \in Callers, o \in Ops, p \in Paths \cup {"none"} : Call(c, o, p)
    \/ \E c \in Callers : HostStep(c)
    \/ \E c \in Callers : T_JoinRace(c)
    \/ \E t \in Sessions : ThreadStep(t)
    \/ UseAfterFree

Spec == Init /\ [][Next]_vars

\* The host makes one call at a time.
NextSerial ==
    \/ \E c \in Callers, o \in Ops, p \in Paths \cup {"none"} : CallSerial(c, o, p)
    \/ \E c \in Callers : HostStep(c)
    \/ \E t \in Sessions : ThreadStep(t)

SpecSerial == Init /\ [][NextSerial]_vars

\* The host makes one call at a time, except that calls of stopMonitoring may
\* overlap.
NextStops ==
    \/ \E c \in Callers, o \in Ops, p \in Paths \cup {"none"} : CallOverStop(c, o, p)
    \/ \E c \in Callers : HostStep(c)
    \/ \E c \in Callers : T_JoinRace(c)
    \/ \E t \in Sessions : ThreadStep(t)

SpecStops == Init /\ [][NextStops]_vars

\* The host makes one call at a time; a background thread that can take a
\* step is scheduled, and so is a host thread that is inside a call. Every
\* step ends: select has a timeout and the callback returns.
SpecFair ==
    /\ Init
    /\ [][NextSerial]_vars
    /\ \A t \in Sessions : WF_vars(ThreadStep(t))
    /\ \A c \in Callers : WF_vars(HostStep(c))

\* The host makes one call at a time, and what the consumer is handed is
\* recorded, buffer by buffer.
InitWatch == Created /\ traced = TRUE /\ PureIdle

SpecWatch == InitWatch /\ [][NextSerial]_vars

TypeOK ==
    /\ monitoring \in BOOLEAN /\ shouldStop \in BOOLEAN /\ destroyed \in BOOLEAN
    /\ handle \in 0..MaxSessions
    /\ nextSid \in 1..(MaxSessions + 1)
    /\ calls \in 0..MaxCalls
    /\ \A t \in Sessions : released[t] \in 0..1 /\ (tpc[t] # "unborn" => t < nextSid)

\* ----------------------------------------------------------------- claims
\* What a session consists of: the flags, the thread handle, the global
\* references made, the background threads, their descriptors and releases.
session == <<monitoring, shouldStop, handle, nextSid, tpc, fdOpen, released>>

\* Session t is torn down: its thread has exited, its descriptor is closed
\* and its global reference has been deleted.
TornDown(t) == tpc[t] = "done" /\ ~fdOpen[t] /\ released[t] >= 1

\* C1: when stop() returns to a host that had started a session, the
\* background thread has exited, the inotify descriptor is closed and the
\* consumer global reference is released.
C1_StopReturnsAfterTeardown ==
    [][\A c \in Callers :
          (op[c] = "stop" /\ pc[c] \in {"t_check", "t_joinable", "t_join"}
             /\ pc'[c] = "idle")
          => \A t \in okSessions : TornDown(t)']_vars

\* C2: start() on a watcher whose monitoring_ flag is set returns false
\* ("Already monitoring") in that step and changes nothing of the session: no
\* thread, no descriptor, no reference, both flags as they were.
C2_StartWhileActiveRejected ==
    [][\A c \in Callers :
          (pc[c] = "s_check" /\ pc'[c] # "s_check" /\ monitoring /\ ~aborted')
          => /\ pc'[c] = "idle"
             /\ lastRet' = "AlreadyActive"
             /\ UNCHANGED session]_vars

\* C2 witness: a start() has been turned away while a session was running.
C2_Witness ==
    /\ lastRet = "AlreadyActive"
    /\ monitoring
    /\ Live # {}
    /\ handle \in Live

\* C3: no start() has returned true for a session whose inotify_init1 or
\* inotify_add_watch failed.
C3_StartReportsSubscriptionFailure ==
    \A t \in okSessions : exitPath[t] \notin {"init", "watch"}

\* C4: a start() made after a stop() has returned never ends in
\* std::terminate at the assignment of the new thread.
C4_RestartAfterStop == ~(abortCause = "assign" /\ lastRet = "stopped")

\* C5: at no time are there two live background threads or two open inotify
\* descriptors.
C5_OneSessionAtATime ==
    /\ Cardinality(Live) <= 1
    /\ Cardinality({t \in Sessions : fdOpen[t]}) <= 1

\* C6: start() on a path that is no directory returns false, from the
\* monitoring_ check or from the stat, without reaching the code that makes a
\* session, and changes nothing of the session (isActive() stays as it was).
C6_StartOnMissingDirectory ==
    [][\A c \in Callers :
          (arg[c] = "missing" /\ pc[c] \in {"s_check", "s_validate"}
             /\ pc'[c] # pc[c] /\ ~aborted')
          => /\ pc[c] = "s_check" => pc'[c] \in {"s_validate", "idle"}
             /\ pc[c] = "s_validate" =>
                   pc'[c] = "idle" /\ lastRet' = "DirectoryNotFound"
             /\ pc'[c] = "idle" =>
                   lastRet' \in {"AlreadyActive", "DirectoryNotFound"}
             /\ UNCHANGED session]_vars

\* C6 witness: start() on a missing directory has failed on a watcher that
\* never had a session, and the watcher is inactive and holds nothing.
C6_Witness ==
    /\ lastRet = "DirectoryNotFound"
    /\ ~isMonitoring
    /\ nextSid = 1
    /\ Live = {}
    /\ RefsHeld = {}

\* C7: stop() on a watcher whose monitoring_ flag is clear returns in that
\* step, without joining, and changes neither flag, nor the thread handle,
\* nor any thread, descriptor or reference.
C7_StopWhileInactiveIsNoOp ==
    [][\A c \in Callers :
          (op[c] = "stop" /\ pc[c] = "t_check" /\ pc'[c] # "t_check"
             /\ ~monitoring /\ ~aborted')
          => /\ pc'[c] = "idle"
             /\ lastRet' = "stopped"
             /\ ~monitoring'
             /\ UNCHANGED session]_vars

\* C7 witness: stop() has returned on a watcher that never had a session, and
\* the host has made a further call since.
C7_Witness ==
    /\ lastRet = "stopped"
    /\ nextSid = 1
    /\ ~isMonitoring
    /\ ~shouldStop
    /\ calls >= 2

\* C8: when the destructor has run on a watcher it found active, every
\* session is torn down, its global reference deleted exactly once.
C8_DestroyTearsDown ==
    \A c \in Callers :
       (pc[c] = "gone" /\ sawActive[c])
       => \A t \in Sessions : t < nextSid => TornDown(t) /\ released[t] = 1

\* C9: once the thread of a session that start() reported has exited, the
\* session's global reference has been deleted exactly once.
C9_ReferenceReleasedOnce ==
    \A t \in okSessions : tpc[t] = "done" => released[t] = 1

\* C10: after a failed read the loop continues when errno is EAGAIN and goes
\* to its cleanup on any other errno.
C10_ReadFailureEndsLoop ==
    [][\A t \in Sessions :
          (tpc[t] = "read_err" /\ tpc'[t] # "read_err" /\ ~aborted')
          => tpc'[t] = (IF rd[t] = "EAGAIN" THEN "loop" ELSE "cleanup")]_vars

\* The fates of a candidate that was not handed to the consumer with success.
Failures == {"nostat"} \cup (Outcomes \ {"ok"})

\* Thread t has just finished with a candidate, and this is how it fared.
Fared(t, f) ==
    /\ tpc[t] \in {"settle", "deliver"}
    /\ Len(fate'[t]) = Len(fate[t]) + 1
    /\ fate'[t][Len(fate'[t])] \in f

Candidate(s, i) == Len(s[i]) > 0 /\ isApkFile(s[i])

\* The positions of the candidates of buffer s, and those up to position i.
Candidates(s) == {i \in 1..Len(s) : Candidate(s, i)}
CandidatesUpTo(s, i) == {j \in Candidates(s) : j <= i}

\* How the candidate at position i of thread t's buffer has fared: "pending"
\* until the loop has finished with it.
FateOf(t, i) ==
    LET k == Cardinality(CandidatesUpTo(src[t], i))
    IN IF k <= Len(fate[t]) THEN fate[t][k] ELSE "pending"

\* The records of thread t's buffer that qualify when the fates in ok do:
\* their positions, in decode order.
RECURSIVE Ascending(_)
Ascending(S) ==
    IF S = {} THEN <<>>
    ELSE LET lo == CHOOSE i \in S : \A j \in S : i <= j
         IN <<lo>> \o Ascending(S \ {lo})

Qualifying(t, ok) ==
    Ascending({i \in Candidates(src[t]) : FateOf(t, i) \in ok})

\* The loop has finished with the buffer thread t read.
BufferDone(t) == tpc[t] = "loop" /\ src[t] # <<>>

\* The consumer of thread t has been handed exactly the records at the
\* positions in q, in that order, each with its full path.
HandedExactly(t, q) ==
    /\ Len(got[t]) = Len(q)
    /\ \A k \in 1..Len(q) :
          got[t][k] = [at |-> q[k], path |-> FullPath(src[t][q[k]])]

\* C12 as stated: when the loop has finished with a buffer, the consumer has
\* been handed exactly the records that passed the name filter and the
\* settle confirmation, in decode order, one delivery per record.
C12_DeliveriesAreSettledCandidates ==
    \A t \in Sessions :
        BufferDone(t) => HandedExactly(t, Qualifying(t, Outcomes))

\* C12, amended: when the loop has finished with a buffer, the consumer has
\* been handed exactly the records that passed the name filter and the
\* settle confirmation and for which the callback could be called, in decode
\* order, one delivery per record (a name on k such records is delivered k
\* times); and while the loop is in the buffer, what has been handed over is
\* that for the records it has finished with. Buffers are handled one after
\* the other, so this is the order across buffers too.
C12_DeliveriesInDecodeOrder ==
    \A t \in Sessions :
        /\ HandedExactly(t, Qualifying(t, Called))
        /\ BufferDone(t) => Len(fate[t]) = Cardinality(Candidates(src[t]))

\* C12 happens: a buffer with the same name on two records has been decoded
\* to its end, and the consumer was handed that path twice.
C12_Witness ==
    \E t \in Sessions :
        /\ BufferDone(t)
        /\ Len(got[t]) = 2
        /\ got[t][1].path = got[t][2].path
        /\ got[t][1].at < got[t][2].at

\* How many times the consumer of thread t was handed the record at
\* position i of the buffer.
TimesHanded(t, i) == Cardinality({k \in 1..Len(got[t]) : got[t][k].at = i})

\* The loop has finished with the record at position i of thread t's buffer.
Finished(t, i) ==
    IF Candidate(src[t], i) THEN FateOf(t, i) # "pending"
    ELSE i < Cursor(t) \/ tpc[t] = "loop"

SizeOf(n) == IF n = <<>> THEN HeaderSize ELSE HeaderSize + Len(n) + 1

\* The offset at which record j of the layout starts; the tail starts at
\* OffsetOf(N + 1).
RECURSIVE OffsetOf(_)
OffsetOf(j) == IF j = 1 THEN 0 ELSE OffsetOf(j - 1) + SizeOf(layout.recs[j - 1])

\* The complete records that have a name: their offsets and names, in order.
RECURSIVE NamedFrom(_)
NamedFrom(j) ==
    IF j > Len(layout.recs) THEN <<>>
    ELSE (IF layout.recs[j] = <<>> THEN <<>>
          ELSE <<[at |-> OffsetOf(j), name |-> layout.recs[j]]>>) \o NamedFrom(j + 1)

\* C14: on N complete records followed by a truncated one, the decoding loop
\* only ever stands at the start of a record, so it steps over a record
\* without a name by the header size; it never reads at or beyond length;
\* and it ends at the start of the tail having passed on exactly the records
\* that have a name, in order.
C14_DecodesCompleteRecords ==
    dpc # "idle" =>
        /\ \E j \in 1..(Len(layout.recs) + 1) : cur = OffsetOf(j)
        /\ hiRead < Len(bytes)
        /\ \A k \in 1..Len(yielded) : yielded[k] = NamedFrom(1)[k]
        /\ dpc = "end" => /\ cur = OffsetOf(Len(layout.recs) + 1)
                          /\ yielded = NamedFrom(1)

\* C14 happens: the loop has ended on a buffer of a record without a name, a
\* record with one, and a tail cut inside its name.
C14_Witness ==
    /\ dpc = "end"
    /\ Len(layout.recs) = 2
    /\ layout.recs[1] = <<>> /\ layout.recs[2] # <<>>
    /\ Len(layout.tail) > HeaderSize
    /\ Len(yielded) = 1

\* Two characters are the same letter, whatever their case.
SameLetter(x, y) ==
    \/ x = y
    \/ {x, y} \in {{"a", "A"}, {"p", "P"}, {"k", "K"}}

\* C15: isApkFile returns true exactly for the names of at least 4
\* characters whose last 4 characters are ".apk" in any case: it accepts
\* "App.APK" and "a.apk" and rejects "app.apkx", "apk" and "".
C15_IsApkFileIsSuffixMatch ==
    verdict # "none" =>
        /\ verdict = "true" <=>
              /\ Len(fname) >= 4
              /\ \A i \in 1..4 :
                    SameLetter(fname[Len(fname) - 4 + i], <<".", "a", "p", "k">>[i])
        /\ fname \in {MixedCaseName, <<"a", ".", "a", "p", "k">>} => verdict = "true"
        /\ fname \in {LongerName, <<"a", "p", "k">>, <<>>} => verdict = "false"

\* C15 happens: isApkFile has been called on "App.APK" and has accepted it.
C15_Witness == fname = MixedCaseName /\ verdict = "true"

\* Host thread c is in stopMonitoring and has set shouldStop_ (line 65).
Cancelling(c) == op[c] = "stop" /\ pc[c] \in {"t_mon", "t_joinable", "t_join"}

\* C16: once stopMonitoring has set shouldStop_ on an active session, a
\* background thread that evaluates its loop condition leaves the loop, so
\* it starts no further iteration; and, threads being scheduled and calls
\* into the consumer returning, every background thread finishes and
\* stopMonitoring returns.
C16_CancellationIsEffective ==
    /\ [][\A t \in Sessions :
            ((\E c \in Callers : Cancelling(c)) /\ tpc[t] = "loop" /\ tpc'[t] # "loop")
                => tpc'[t] = "cleanup"]_vars
    /\ \A c \in Callers :
          Cancelling(c) ~> (pc[c] = "idle" /\ lastRet = "stopped" /\ Live = {})

\* C16 happens: stopMonitoring waits in join while the background thread is
\* in the settle delay of a candidate.
C16_Witness ==
    \E c \in Callers :
        /\ Cancelling(c) /\ pc[c] = "t_join"
        /\ tpc[jh[c]] = "settle"

\* Background thread t has been spawned.
Spawned(t) == tpc[t] # "unborn"

\* C17: in every state in which isMonitoring() is false, the descriptor of
\* every background thread that was spawned is closed and its global
\* reference has been deleted.
C17_InactiveMeansReleased ==
    (~aborted /\ ~isMonitoring) =>
        \A t \in Sessions : Spawned(t) => ~fdOpen[t] /\ released[t] >= 1

\* The returns and the break by which a background thread ends without
\* having been told to stop.
OwnExits == {"attach", "init", "watch", "select"}

\* No startMonitoring is under way, and none has returned true for a
\* session after session t.
NoStartSince(t) ==
    /\ \A c \in Callers : op[c] # "start"
    /\ \A u \in okSessions : u <= t

\* C18: once a background thread has ended on its own (AttachCurrentThread,
\* inotify_init1 or inotify_add_watch failed, or select failed),
\* isMonitoring() is false until the next startMonitoring that returns true.
C18_OwnExitMeansInactive ==
    \A t \in Sessions :
        (tpc[t] = "done" /\ exitPath[t] \in OwnExits /\ NoStartSince(t))
            => ~isMonitoring

\* A stopMonitoring has returned after the startMonitoring of session t
\* returned true, and no call has returned since.
StopReturnedOn(t) == lastRet = "stopped" /\ t \in okSessions

\* C19: a background thread does not call the consumer once a
\* stopMonitoring made on its session has returned, and does not call it
\* with a global reference that has been deleted.
C19_NoCallbackAfterStop ==
    /\ [][\A t \in Sessions :
            (tpc[t] = "deliver" /\ tpc'[t] # "deliver" /\ ~aborted')
                => ~StopReturnedOn(t)]_vars
    /\ [](\A t \in Sessions : tpc[t] = "deliver" => released[t] = 0)

\* C20: whenever no call is under way and isMonitoring() is false, so that
\* the FileMonitor may be destroyed or started again, monitorThread_ is not
\* joinable; the destructor never runs on a joinable monitorThread_.
C20_IdleHandleNotJoinable ==
    /\ (~aborted /\ ~destroyed /\ ~isMonitoring /\ \A c \in Callers : pc[c] = "idle")
           => ~joinable
    /\ abortCause # "dtor"

====
